---- MODULE Spec2Model ----
(***************************************************************************)
(* homebridge-iport-sm-buttons-lan: the device session and the event       *)
(* dispatch of IPortSMButtonsPlatform.                                     *)
(*                                                                         *)
(* The repository holds three variants of the platform class:              *)
(*   "basic"    src/index.js                                               *)
(*   "enhanced" src/unnamed/part_000, lines 1-441   (backoff, watchdog)    *)
(*   "queued"   src/unnamed/part_000, lines 443-1089 (readiness queue)     *)
(* The variable variant is fixed by Init and selects the code each action  *)
(* models.                                                                 *)
(*                                                                         *)
(* Node runs every callback to completion on one thread, so each action is *)
(* one callback: a socket event handler, a timer callback, an HTTP request *)
(* handler or a Homebridge api event handler.  socket.destroy() does not   *)
(* run the 'close' handler itself: the event is delivered later, as its    *)
(* own callback (socket state "destroyed" until then).                     *)
(***************************************************************************)
EXTENDS Integers, Sequences, FiniteSets, TLC

VARIABLES
    variant,             \* which of the three platform classes runs
    reconnectDelay,      \* this.reconnectDelay (config, ms)
    maxReconnectDelay,   \* this.maxReconnectDelay (config, ms)
    sockets,             \* every net.Socket created so far, by creation order
    socket,              \* this.socket: an index of sockets, 0 for null
    connected,           \* this.connected
    isShuttingDown,      \* this.isShuttingDown
    retryTimer,          \* this.retryTimer: "null", or the state of the timer it names
    orphanTimers,        \* pending reconnection timers that no handle names
    retryDelay,          \* delay of the reconnection timer scheduled last (ms)
    reconnectAttempts,   \* this.reconnectAttempts
    retryScheduled,      \* this.retryScheduled
    keepAliveInterval,   \* this.keepAliveInterval: "null", "active" or "cleared"
    orphanKeepAlives,    \* running keep-alive intervals that no handle names
    healthCheckInterval, \* this.healthCheckInterval
    orphanHealthChecks,  \* running health-check intervals that no handle names
    dataFresh,           \* Date.now() - this.lastDataReceived <= 120000
    wrote,               \* the callback that just ran wrote bytes to a socket
    buttonMappings,      \* this.buttonMappings (config)
    ledColor,            \* this.ledColor
    buttonStates,        \* this.buttonStates[i].state, i in 0..9
    currentColorIndex,   \* this.currentColorIndex
    buttonServices,      \* this.buttonServices: [len, has], a sparse array
    mappingSwitches,     \* this.mappingSwitches: the mappings that have a switch
    eventQueue,          \* this.eventQueue
    launched,            \* Homebridge has emitted didFinishLaunching
    triggered,           \* button indices triggered by the callback that just ran
    executed,            \* mappings handed to their collaborator by that callback
    cycled,              \* mode-cycle operations performed by that callback
    handled,             \* the events that callback gave to handleButtonEvent
    dispatched,          \* the button numbers it gave to executeButtonAction
    modeLog,             \* the modes executeButtonAction computed in it
    selected,            \* the mappings executeButtonAction went on to run in it
    ledCalls,            \* the colours it gave to setLED
    sent,                \* the LED command setLED wrote last in it
    stateReads           \* the indices it read this.buttonStates with

configVars == <<variant, reconnectDelay, maxReconnectDelay, buttonMappings>>
dispatchVars == <<ledColor, buttonStates, currentColorIndex, buttonServices,
                  mappingSwitches, eventQueue, launched>>
outputVars == <<triggered, executed, cycled, handled, dispatched, modeLog,
                selected, ledCalls, sent, stateReads>>
sessionVars == <<sockets, socket, connected, isShuttingDown, retryTimer,
                 orphanTimers, retryDelay, reconnectAttempts, retryScheduled,
                 keepAliveInterval, orphanKeepAlives, healthCheckInterval,
                 orphanHealthChecks, dataFresh, wrote>>
vars == <<configVars, sessionVars, dispatchVars, outputVars>>

Variants == {"basic", "enhanced", "queued"}

\* The number of connect() executions a behaviour may hold.
MaxSockets == 4

Min(a, b) == IF a < b THEN a ELSE b

RECURSIVE Pow2(_)
Pow2(n) == IF n = 0 THEN 1 ELSE 2 * Pow2(n - 1)

(***************************************************************************)
(* Sockets                                                                 *)
(***************************************************************************)
\* A socket is live from its creation until it is destroyed or closed.  ct
\* tells that the connectionTimeout of its connect() call is pending, rx
\* that it has delivered data within the freshness window of the health
\* check (enhanced variant).
Live(s) == s.st \in {"connecting", "open"}

\* socket.destroy(): idempotent, the 'close' event follows as its own callback.
destroy(socks, s) ==
    IF s # 0 /\ Live(socks[s]) THEN [socks EXCEPT ![s].st = "destroyed"] ELSE socks

\* clearTimeout(connectionTimeout) of the connect() call that made socket s.
clearConnectionTimeout(socks, s) == [socks EXCEPT ![s].ct = FALSE]

\* connect(): the socket-creating part; the handlers it installs are the
\* actions below.
connect(socks) ==
    LET prior == IF variant = "enhanced" THEN destroy(socks, socket) ELSE socks
    IN  /\ sockets' = Append(prior, [st |-> "connecting", ct |-> variant = "enhanced", rx |-> FALSE])
        /\ socket' = Len(socks) + 1

(***************************************************************************)
(* Disconnection handling                                                  *)
(***************************************************************************)
backoffDelayCapSix(attempts) ==
    Min(maxReconnectDelay, reconnectDelay * Pow2(Min(attempts, 6)))

\* delay = Math.min(maxDelay, baseDelay * Math.pow(2, Math.min(attempts, 5)))
backoffDelay(attempts) ==
    Min(maxReconnectDelay, reconnectDelay * Pow2(Min(attempts, 5)))

\* clearInterval on a handle that is kept (not set to null afterwards).
clearKept(h) == IF h = "null" THEN "null" ELSE "cleared"

\* cleanupConnection() of the enhanced variant.
cleanupConnection(socks) ==
    /\ connected' = FALSE
    /\ keepAliveInterval' = "null"
    /\ healthCheckInterval' = "null"
    /\ sockets' = destroy(socks, socket)
    /\ socket' = 0

\* handleDisconnection() of the enhanced variant.
handleDisconnection(socks) ==
    IF isShuttingDown
    THEN /\ sockets' = socks
         /\ UNCHANGED <<socket, connected, retryTimer, orphanTimers, retryDelay,
                        reconnectAttempts, retryScheduled, keepAliveInterval,
                        healthCheckInterval>>
    ELSE /\ cleanupConnection(socks)
         /\ retryDelay' = backoffDelay(reconnectAttempts)
         /\ reconnectAttempts' = reconnectAttempts + 1
         /\ retryScheduled' = TRUE
         /\ orphanTimers' = IF retryTimer = "pending" THEN orphanTimers + 1
                            ELSE orphanTimers
         /\ retryTimer' = "pending"

\* The delay of reconnect() in the basic variant (ms).
BasicReconnectDelay == 2000

\* reconnect() of the basic variant.
reconnect(socks) ==
    IF isShuttingDown
    THEN /\ sockets' = socks
         /\ UNCHANGED <<socket, keepAliveInterval, orphanTimers, retryDelay>>
    ELSE /\ keepAliveInterval' = clearKept(keepAliveInterval)
         /\ sockets' = destroy(socks, socket)
         /\ socket' = 0
         /\ orphanTimers' = orphanTimers + 1
         /\ retryDelay' = BasicReconnectDelay

\* queryLED(): whether the call writes to the socket, given this.connected.
queryLEDWrites(conn, sock) == conn /\ ~isShuttingDown /\ sock # 0

(***************************************************************************)
(* Strings: sequences of one-character strings                             *)
(***************************************************************************)
\* What parseInt returns for text that does not start with a number.
NaN == 1000000

Digits == <<"0", "1", "2", "3", "4", "5", "6", "7", "8", "9">>
IsDigit(c) == \E i \in 1..10 : Digits[i] = c
DigitVal(c) == (CHOOSE i \in 1..10 : Digits[i] = c) - 1
IsSpace(c) == c \in {" ", "\r", "\n"}

\* String.prototype.substr(start, length), start counted from 0.
substr(s, start, length) == SubSeq(s, start + 1, Min(start + length, Len(s)))

\* String.prototype.padStart(n, '0').
RECURSIVE padStart(_, _)
padStart(s, n) == IF Len(s) >= n THEN s ELSE padStart(<<"0">> \o s, n)

RECURSIVE trimStart(_)
trimStart(s) ==
    IF s # <<>> /\ IsSpace(Head(s)) THEN trimStart(Tail(s)) ELSE s

RECURSIVE trimEnd(_)
trimEnd(s) ==
    IF s # <<>> /\ IsSpace(s[Len(s)]) THEN trimEnd(SubSeq(s, 1, Len(s) - 1)) ELSE s

\* String.prototype.trim().
trim(s) == trimEnd(trimStart(s))

\* The value of the longest prefix of digits of s, given the value so far.
RECURSIVE digitsValue(_, _)
digitsValue(s, acc) ==
    IF s # <<>> /\ IsDigit(Head(s))
    THEN digitsValue(Tail(s), 10 * acc + DigitVal(Head(s)))
    ELSE acc

\* parseInt(s, 10): leading white space, an optional sign, then digits.
parseInt(s) ==
    LET t == trimStart(s)
        signed == t # <<>> /\ Head(t) \in {"-", "+"}
        body == IF signed THEN Tail(t) ELSE t
    IN  IF body = <<>> \/ ~IsDigit(Head(body)) THEN NaN
        ELSE IF signed /\ Head(t) = "-" THEN 0 - digitsValue(body, 0)
        ELSE digitsValue(body, 0)

\* The first position at which pat occurs in s, 0 when it does not.
indexOf(s, pat) ==
    LET hits == {i \in 1..(Len(s) - Len(pat) + 1) :
                    SubSeq(s, i, i + Len(pat) - 1) = pat}
    IN  IF hits = {} THEN 0 ELSE CHOOSE i \in hits : \A j \in hits : i <= j

\* s.split(sep)[1]: the text between the first and the second occurrence of
\* sep; Undefined when sep does not occur.
Undefined == <<"undefined">>
splitSecond(s, sep) ==
    LET i == indexOf(s, sep)
        rest == SubSeq(s, i + Len(sep), Len(s))
        j == indexOf(rest, sep)
    IN  IF i = 0 THEN Undefined
        ELSE IF j = 0 THEN rest ELSE SubSeq(rest, 1, j - 1)

(***************************************************************************)
(* LED state and mode classification                                       *)
(***************************************************************************)
\* this.modeColors, in insertion order (the order for ... in visits).
modeColors == <<
    [name |-> "yellow", r |-> 255, g |-> 255, b |-> 0],
    [name |-> "red",    r |-> 255, g |-> 0,   b |-> 0],
    [name |-> "blue",   r |-> 0,   g |-> 0,   b |-> 255],
    [name |-> "green",  r |-> 0,   g |-> 255, b |-> 0],
    [name |-> "purple", r |-> 128, g |-> 0,   b |-> 128],
    [name |-> "white",  r |-> 255, g |-> 255, b |-> 255] >>

\* this.colorCycle.
colorCycle == <<"red", "green", "blue", "yellow", "purple", "white">>

\* this.modeColors[name]; the lookup is used only for names of the palette.
modeColor(name) == modeColors[CHOOSE i \in DOMAIN modeColors : modeColors[i].name = name]
IsModeName(name) == \E i \in DOMAIN modeColors : modeColors[i].name = name

\* parseAndSetLedFromString(ledValue): the colour it stores.
parseAndSetLedFromString(ledValue) ==
    LET s == trim(ledValue)
        padded == substr(padStart(s, 9), 0, 9)
    IN  [r |-> parseInt(substr(padded, 0, 3)),
         g |-> parseInt(substr(padded, 3, 3)),
         b |-> parseInt(substr(padded, 6, 3))]

Max3(a, b, c) ==
    IF a >= b /\ a >= c THEN a ELSE IF b >= c THEN b ELSE c

scaleChannelUnscaled(x, max) == x

\* Math.round((x / max) * 255) for max # 0: the nearest integer, halves up.
scaleChannel(x, max) ==
    IF max > 0 THEN (510 * x + max) \div (2 * max)
    ELSE (0 - 510 * x - max) \div (0 - 2 * max)

getCurrentModeUnscaled(c) ==
    LET hits == {i \in DOMAIN modeColors : /\ c.r = modeColors[i].r
                                           /\ c.g = modeColors[i].g
                                           /\ c.b = modeColors[i].b}
    IN  IF c.r = 0 /\ c.g = 0 /\ c.b = 0 THEN "off"
        ELSE IF hits = {} THEN "unknown"
        ELSE modeColors[CHOOSE i \in hits : TRUE].name

\* getCurrentMode() for the colour c.
getCurrentMode(c) ==
    IF c.r = 0 /\ c.g = 0 /\ c.b = 0 THEN "off"
    ELSE IF NaN \in {c.r, c.g, c.b} THEN "unknown"
    ELSE LET max == Max3(c.r, c.g, c.b)
             r == scaleChannel(c.r, max)
             g == scaleChannel(c.g, max)
             b == scaleChannel(c.b, max)
             hits == {i \in DOMAIN modeColors :
                         /\ r = modeColors[i].r
                         /\ g = modeColors[i].g
                         /\ b = modeColors[i].b}
         IN  IF max = 0 \/ hits = {} THEN "unknown"
             ELSE modeColors[CHOOSE i \in hits : \A j \in hits : i <= j].name

(***************************************************************************)
(* Button events and action dispatch                                       *)
(*                                                                         *)
(* A callback's work on the dispatch state is a value d:                   *)
(*   led, states, idx   this.ledColor, this.buttonStates, currentColorIndex*)
(*   queue              this.eventQueue                                    *)
(*   trig, exec, cyc    what the callback has triggered, executed, cycled  *)
(*   disp               the button numbers it has given executeButtonAction*)
(*   modes              the modes executeButtonAction has computed         *)
(*   reads              the indices it has read this.buttonStates with     *)
(*   leds, sent         the colours it has given setLED, and the command   *)
(*                      setLED wrote last (<<>> when it wrote none)        *)
(*   sel                the mappings executeButtonAction went on to run;   *)
(*                      exec holds those it handed to a collaborator       *)
(*   seen               the events it has given to handleButtonEvent       *)
(*   wrote              whether it has written to the socket               *)
(*   threw              an exception is propagating                        *)
(***************************************************************************)
LedEq == <<"l", "e", "d", "=">>

\* Number.prototype.toString() of an integer.
RECURSIVE toString(_)
toString(n) ==
    IF n < 0 THEN <<"-">> \o toString(0 - n)
    ELSE IF n < 10 THEN <<Digits[n + 1]>>
    ELSE toString(n \div 10) \o <<Digits[(n % 10) + 1]>>

ledCommandUnpadded(c) ==
    <<"\r">> \o LedEq \o toString(c.r) \o toString(c.g) \o toString(c.b) \o <<"\r">>

\* The command setLED writes: `\rled=${r...}${g...}${b...}\r`, each channel
\* as toString().padStart(3, '0').
ledCommand(c) ==
    <<"\r">> \o LedEq \o padStart(toString(c.r), 3) \o padStart(toString(c.g), 3)
            \o padStart(toString(c.b), 3) \o <<"\r">>

setLEDUnguarded(d, c) ==
    [d EXCEPT !.leds = Append(@, c), !.wrote = TRUE, !.led = c,
              !.sent = ledCommand(c)]

\* setLED(r, g, b): the write throws when this.socket is null, and the
\* colour is then not stored.
setLED(d, c) ==
    LET called == [d EXCEPT !.leds = Append(@, c)]
    IN  IF ~connected \/ isShuttingDown \/ socket = 0 THEN called
        ELSE [called EXCEPT !.wrote = TRUE, !.led = c, !.sent = ledCommand(c)]

\* cycleLEDColor().
cycleLEDColor(d) ==
    LET next == (d.idx + 1) % Len(colorCycle)
        color == modeColor(colorCycle[next + 1])
    IN  setLED([d EXCEPT !.idx = next, !.cyc = @ + 1],
               [r |-> color.r, g |-> color.g, b |-> color.b])

\* String.prototype.toLowerCase() on the colour names of the configuration.
toLowerCase(name) ==
    CASE name = "Red" -> "red"
      [] name = "BLUE" -> "blue"
      [] OTHER -> name

\* executeLedAction(action) of the queued variant.
executeLedAction(d, action) ==
    IF action.ledColor = "" THEN d
    ELSE IF IsModeName(toLowerCase(action.ledColor))
         THEN LET color == modeColor(toLowerCase(action.ledColor))
              IN  setLED(d, [r |-> color.r, g |-> color.g, b |-> color.b])
         ELSE d

\* The indices of the mappings of a button: buttonMappings.filter(...).
RECURSIVE filterButton(_, _)
filterButton(i, buttonNumber) ==
    IF i > Len(buttonMappings) THEN <<>>
    ELSE (IF buttonMappings[i].buttonNumber = buttonNumber THEN <<i>> ELSE <<>>)
         \o filterButton(i + 1, buttonNumber)

\* Array.prototype.find over the mapping indices as: the first whose mode
\* colour is mode, 0 when there is none.
RECURSIVE findMode(_, _)
findMode(as, mode) ==
    IF as = <<>> THEN 0
    ELSE IF buttonMappings[Head(as)].modeColor = mode THEN Head(as)
    ELSE findMode(Tail(as), mode)

\* The loop of executeButtonAction in the basic and enhanced variants: every
\* mapping whose mode colour is "any" or the current mode is run, and only
\* 'lifx' mappings reach a collaborator (handleLifxAction).
RECURSIVE runMatching(_, _, _)
runMatching(d, as, mode) ==
    IF as = <<>> THEN d
    ELSE LET a == buttonMappings[Head(as)]
             taken == [d EXCEPT !.sel = Append(@, Head(as))]
         IN  IF a.modeColor # "any" /\ a.modeColor # mode
             THEN runMatching(d, Tail(as), mode)
             ELSE IF a.actionType = "lifx"
             THEN runMatching([taken EXCEPT !.exec = Append(@, Head(as))],
                              Tail(as), mode)
             ELSE runMatching(taken, Tail(as), mode)

runSelectedAnyFirst(d, as, mode) ==
    LET any == findMode(as, "any")
        chosen == IF any # 0 THEN any ELSE findMode(as, mode)
    IN  IF chosen = 0 THEN d
        ELSE [d EXCEPT !.sel = Append(@, chosen), !.exec = Append(@, chosen)]

\* The selection of executeButtonAction in the queued variant: the first
\* mapping of the current mode, else the first "any" mapping.
runSelected(d, as, mode) ==
    LET exact == findMode(as, mode)
        chosen == IF exact # 0 THEN exact ELSE findMode(as, "any")
        a == buttonMappings[chosen]
        taken == [d EXCEPT !.sel = Append(@, chosen)]
    IN  IF chosen = 0 THEN d
        ELSE CASE a.actionType = "accessory" ->
                    [taken EXCEPT !.exec = Append(@, chosen)]
               [] a.actionType = "led" ->
                    executeLedAction([taken EXCEPT !.exec = Append(@, chosen)], a)
               [] a.actionType = "scene" ->
                    IF chosen \in mappingSwitches
                    THEN [taken EXCEPT !.exec = Append(@, chosen)]
                    ELSE taken
               [] OTHER -> taken

buttonActionUnreserved(d, buttonNumber) ==
    LET as == filterButton(1, buttonNumber)
        currentMode == getCurrentMode(d.led)
    IN  IF as = <<>> THEN d
        ELSE IF variant = "queued"
        THEN runSelected(d, as, currentMode)
        ELSE runMatching(d, as, currentMode)

\* executeButtonAction(buttonNumber) after the call is recorded.
buttonAction(d, buttonNumber) ==
    IF buttonNumber = 10 THEN cycleLEDColor(d)
    ELSE LET as == filterButton(1, buttonNumber)
             currentMode == getCurrentMode(d.led)
             logged == [d EXCEPT !.modes = Append(@, currentMode)]
         IN  IF as = <<>> THEN d
             ELSE IF variant = "queued"
             THEN runSelected(logged, as, currentMode)
             ELSE runMatching(logged, as, currentMode)

\* A call of executeButtonAction(buttonNumber), recorded in disp.
executeButtonAction(d, buttonNumber) ==
    buttonAction([d EXCEPT !.disp = Append(@, buttonNumber)], buttonNumber)

triggerButtonEventSameNumber(d, buttonIndex) ==
    IF isShuttingDown THEN d
    ELSE executeButtonAction([d EXCEPT !.trig = Append(@, buttonIndex)],
                             buttonIndex)

\* triggerButtonEvent(buttonIndex).
triggerButtonEvent(d, buttonIndex) ==
    IF isShuttingDown THEN d
    ELSE executeButtonAction([d EXCEPT !.trig = Append(@, buttonIndex)],
                             buttonIndex + 1)

buttonEventUnguarded(d, svc, buttonIndex, state) ==
    IF variant = "queued" /\ buttonIndex \notin svc.has THEN d
    ELSE IF buttonIndex \notin 0..9 THEN d
    ELSE IF state = 1
    THEN [d EXCEPT !.states[buttonIndex] = 1]
    ELSE IF state = 0 /\ d.states[buttonIndex] = 1
    THEN triggerButtonEvent([d EXCEPT !.states[buttonIndex] = 0], buttonIndex)
    ELSE d

\* handleButtonEvent(buttonIndex, state); svc is this.buttonServices.
\* this.buttonStates[buttonIndex] is undefined outside 0..9, and reading or
\* writing its state then throws a TypeError.
buttonEvent(d, svc, buttonIndex, state) ==
    LET bs == [d EXCEPT !.reads = Append(@, buttonIndex)]
    IN  IF ~connected \/ isShuttingDown THEN d
        ELSE IF variant = "queued" /\ buttonIndex \notin svc.has THEN d
        ELSE IF buttonIndex \notin 0..9
        THEN IF state \in {0, 1} THEN [bs EXCEPT !.threw = TRUE] ELSE bs
        ELSE IF state = 1
        THEN [bs EXCEPT !.states[buttonIndex] = 1]
        ELSE IF state = 0 /\ d.states[buttonIndex] = 1
        THEN triggerButtonEvent([bs EXCEPT !.states[buttonIndex] = 0], buttonIndex)
        ELSE bs

\* A call of handleButtonEvent, recorded in seen.
handleButtonEvent(d, svc, buttonIndex, state) ==
    buttonEvent([d EXCEPT !.seen = Append(@, [buttonIndex |-> buttonIndex,
                                              state |-> state])],
                svc, buttonIndex, state)

\* queueOrHandleEvent(buttonIndex, state) of the queued variant.
queueOrHandleEvent(d, svc, buttonIndex, state) ==
    IF svc.len = 0
    THEN [d EXCEPT !.queue = Append(@, [buttonIndex |-> buttonIndex, state |-> state])]
    ELSE handleButtonEvent(d, svc, buttonIndex, state)

RECURSIVE processQueuedEventsLifo(_, _)
processQueuedEventsLifo(d, svc) ==
    IF d.queue = <<>> \/ d.threw THEN d
    ELSE LET event == d.queue[Len(d.queue)]
         IN  processQueuedEventsLifo(
                 handleButtonEvent([d EXCEPT !.queue = SubSeq(@, 1, Len(@) - 1)],
                                   svc, event.buttonIndex, event.state),
                 svc)

\* processQueuedEvents().
RECURSIVE processQueuedEvents(_, _)
processQueuedEvents(d, svc) ==
    IF d.queue = <<>> \/ d.threw THEN d
    ELSE LET event == Head(d.queue)
         IN  processQueuedEvents(
                 handleButtonEvent([d EXCEPT !.queue = Tail(@)], svc,
                                   event.buttonIndex, event.state),
                 svc)

\* The index an event label names: parseInt(label.split(' ')[1], 10) - 1.
keyNum(label) ==
    LET n == parseInt(splitSecond(label, <<" ">>))
    IN  IF n = NaN THEN NaN ELSE n - 1

\* json.events.forEach(...): the events in list order; an exception ends
\* the loop.
RECURSIVE forEachEvent(_, _)
forEachEvent(d, events) ==
    IF events = <<>> \/ d.threw THEN d
    ELSE LET e == Head(events)
             next == IF variant = "queued"
                     THEN queueOrHandleEvent(d, buttonServices, keyNum(e.label),
                                             parseInt(e.state))
                     ELSE handleButtonEvent(d, buttonServices, keyNum(e.label),
                                            parseInt(e.state))
         IN  forEachEvent(next, Tail(events))

\* Whether JSON.parse accepts a text chunk: of the texts over the alphabet
\* of the model these are the integers without a leading zero.  The value is
\* a number, which has no led and no events property.
isJSONNumber(s) ==
    LET body == IF s # <<>> /\ Head(s) = "-" THEN Tail(s) ELSE s
    IN  /\ body # <<>>
        /\ \A i \in DOMAIN body : IsDigit(body[i])
        /\ Len(body) > 1 => body[1] # "0"

decodeTextAnyText(d, str) == [d EXCEPT !.led = parseAndSetLedFromString(str)]

\* The catch branch of the data handler: the text after 'led=', and in the
\* queued variant a bare 9-digit text.
decodeText(d, str) ==
    IF indexOf(str, LedEq) # 0
    THEN LET ledValue == trim(splitSecond(str, LedEq))
         IN  IF ledValue # <<>> THEN [d EXCEPT !.led = parseAndSetLedFromString(ledValue)]
             ELSE d
    ELSE IF variant = "queued"
    THEN LET possibleRGB == trim(SelectSeq(str, LAMBDA c : c \notin {"\r", "\n"}))
         IN  IF Len(possibleRGB) = 9 /\ \A i \in 1..9 : IsDigit(possibleRGB[i])
             THEN [d EXCEPT !.led = parseAndSetLedFromString(possibleRGB)]
             ELSE d
    ELSE d

handleDeviceDataEventsFirst(d, chunk) ==
    IF variant = "queued" /\ isShuttingDown THEN d
    ELSE IF chunk.json
    THEN LET done == forEachEvent(d, chunk.events)
             withLed == IF chunk.led # <<>>
                        THEN [done EXCEPT !.led = parseAndSetLedFromString(chunk.led)]
                        ELSE done
         IN  [withLed EXCEPT !.threw = FALSE]
    ELSE IF isJSONNumber(trim(chunk.str)) THEN d
    ELSE decodeText(d, trim(chunk.str))

\* The data handler (handleDeviceData) on a chunk.  A chunk is either
\*   [json |-> TRUE, led, events]  text that JSON.parse turns into an object
\*       with these fields (led = <<>> and events = <<>> when absent), or
\*   [json |-> FALSE, str]         any other text.
handleDeviceData(d, chunk) ==
    IF variant = "queued" /\ isShuttingDown THEN d
    ELSE IF chunk.json
    THEN LET withLed == IF chunk.led # <<>>
                        THEN [d EXCEPT !.led = parseAndSetLedFromString(chunk.led)]
                        ELSE d
             done == forEachEvent(withLed, chunk.events)
         IN  [done EXCEPT !.threw = FALSE]
    ELSE IF isJSONNumber(trim(chunk.str)) THEN d
    ELSE decodeText(d, trim(chunk.str))

\* The dispatch state a callback starts from, and the state it leaves.
Start ==
    [led |-> ledColor, states |-> buttonStates, idx |-> currentColorIndex,
     queue |-> eventQueue, trig |-> <<>>, exec |-> <<>>, cyc |-> 0,
     wrote |-> FALSE, threw |-> FALSE, seen |-> <<>>, disp |-> <<>>,
     modes |-> <<>>, sel |-> <<>>, leds |-> <<>>, sent |-> <<>>,
     reads |-> <<>>]

Commit(d) ==
    /\ ledColor' = d.led
    /\ buttonStates' = d.states
    /\ currentColorIndex' = d.idx
    /\ eventQueue' = d.queue
    /\ triggered' = d.trig
    /\ executed' = d.exec
    /\ cycled' = d.cyc
    /\ handled' = d.seen
    /\ dispatched' = d.disp
    /\ modeLog' = d.modes
    /\ selected' = d.sel
    /\ ledCalls' = d.leds
    /\ sent' = d.sent
    /\ stateReads' = d.reads
    /\ wrote' = d.wrote

\* A callback that does not touch the dispatch state.
NoDispatch ==
    /\ UNCHANGED dispatchVars
    /\ triggered' = <<>>
    /\ executed' = <<>>
    /\ cycled' = 0
    /\ handled' = <<>>
    /\ dispatched' = <<>>
    /\ modeLog' = <<>>
    /\ selected' = <<>>
    /\ ledCalls' = <<>>
    /\ sent' = <<>>
    /\ stateReads' = <<>>

(***************************************************************************)
(* Construction                                                            *)
(***************************************************************************)
\* The constructor: the fields as initialised, then this.connect().
InitSession ==
    /\ sockets = <<[st |-> "connecting", ct |-> variant = "enhanced", rx |-> FALSE]>>
    /\ socket = 1
    /\ connected = FALSE
    /\ isShuttingDown = FALSE
    /\ retryTimer = "null"
    /\ orphanTimers = 0
    /\ retryDelay = 0
    /\ reconnectAttempts = 0
    /\ retryScheduled = FALSE
    /\ keepAliveInterval = "null"
    /\ orphanKeepAlives = 0
    /\ healthCheckInterval = "null"
    /\ orphanHealthChecks = 0
    /\ dataFresh = FALSE
    /\ wrote = FALSE

\* config.reconnectDelay || 10000 (enhanced) or 5000 (queued), and
\* config.maxReconnectDelay || 300000.
DefaultReconnectDelay == 10000
QueuedReconnectDelay == 5000
DefaultMaxReconnectDelay == 300000

\* The configuration when the config object sets none of the delays.
DefaultConfig ==
    /\ reconnectDelay = IF variant = "queued" THEN QueuedReconnectDelay
                        ELSE DefaultReconnectDelay
    /\ maxReconnectDelay = DefaultMaxReconnectDelay

InitDispatch ==
    /\ ledColor = [r |-> 255, g |-> 255, b |-> 255]
    /\ buttonStates = [i \in 0..9 |-> 0]
    /\ currentColorIndex = 0
    /\ buttonServices = [len |-> 0, has |-> {}]
    /\ mappingSwitches = {}
    /\ eventQueue = <<>>
    /\ launched = FALSE
    /\ triggered = <<>>
    /\ executed = <<>>
    /\ cycled = 0
    /\ handled = <<>>
    /\ dispatched = <<>>
    /\ modeLog = <<>>
    /\ selected = <<>>
    /\ ledCalls = <<>>
    /\ sent = <<>>
    /\ stateReads = <<>>

\* The session under the default configuration, with no button mappings.
Init ==
    /\ variant \in Variants
    /\ DefaultConfig
    /\ buttonMappings = <<>>
    /\ InitSession
    /\ InitDispatch

(***************************************************************************)
(* Socket callbacks                                                        *)
(***************************************************************************)
\* The callback given to socket.connect(): the handshake of socket s completed.
SocketConnected(s) ==
    /\ sockets[s].st = "connecting"
    /\ NoDispatch
    /\ connected' = TRUE
    /\ UNCHANGED <<socket, isShuttingDown, orphanTimers, retryDelay, dataFresh,
                   orphanHealthChecks, configVars>>
    /\ CASE variant = "basic" ->
              /\ sockets' = [sockets EXCEPT ![s].st = "open"]
              /\ keepAliveInterval' = "active"
              /\ wrote' = queryLEDWrites(TRUE, socket)
              /\ UNCHANGED <<retryTimer, reconnectAttempts, retryScheduled,
                             orphanKeepAlives, healthCheckInterval>>
         [] variant = "enhanced" ->
              /\ sockets' = clearConnectionTimeout(
                                [sockets EXCEPT ![s].st = "open"], s)
              /\ reconnectAttempts' = 0
              /\ retryScheduled' = FALSE
              /\ retryTimer' = "null"
              /\ keepAliveInterval' = "active"
              /\ healthCheckInterval' = "active"
              /\ wrote' = FALSE
              /\ UNCHANGED orphanKeepAlives
         [] variant = "queued" ->
              /\ sockets' = [sockets EXCEPT ![s].st = "open"]
              /\ wrote' = queryLEDWrites(TRUE, socket)
              /\ orphanKeepAlives' = IF keepAliveInterval = "active"
                                     THEN orphanKeepAlives + 1
                                     ELSE orphanKeepAlives
              /\ keepAliveInterval' = "active"
              /\ UNCHANGED <<retryTimer, reconnectAttempts, retryScheduled,
                             healthCheckInterval>>

\* socket.on('error'): the socket has failed; Node destroys it and delivers
\* 'close' afterwards.
SocketError(s) ==
    /\ Live(sockets[s])
    /\ NoDispatch
    /\ wrote' = FALSE
    /\ UNCHANGED <<isShuttingDown, dataFresh, orphanKeepAlives,
                   orphanHealthChecks, configVars>>
    /\ LET failed == [sockets EXCEPT ![s].st = "destroyed"]
       IN  CASE variant = "basic" ->
                  /\ reconnect(failed)
                  /\ UNCHANGED <<connected, retryTimer, reconnectAttempts,
                                 retryScheduled, healthCheckInterval>>
             [] variant = "enhanced" ->
                  handleDisconnection(clearConnectionTimeout(failed, s))
             [] variant = "queued" ->
                  /\ sockets' = destroy(failed, socket)
                  /\ connected' = FALSE
                  /\ orphanTimers' = IF isShuttingDown THEN orphanTimers
                                     ELSE orphanTimers + 1
                  /\ retryDelay' = IF isShuttingDown THEN retryDelay
                                   ELSE reconnectDelay
                  /\ UNCHANGED <<socket, retryTimer, reconnectAttempts,
                                 retryScheduled, keepAliveInterval,
                                 healthCheckInterval>>

\* socket.on('close'): socket s is closed, after destroy() or because the
\* device ended the connection.
SocketClose(s) ==
    /\ sockets[s].st \in {"open", "destroyed"}
    /\ NoDispatch
    /\ wrote' = FALSE
    /\ UNCHANGED <<isShuttingDown, dataFresh, orphanKeepAlives,
                   orphanHealthChecks, configVars>>
    /\ LET closed == [sockets EXCEPT ![s].st = "closed"]
       IN  CASE variant = "basic" ->
                  /\ connected' = FALSE
                  /\ reconnect(closed)
                  /\ UNCHANGED <<retryTimer, reconnectAttempts,
                                 retryScheduled, healthCheckInterval>>
             [] variant = "enhanced" ->
                  handleDisconnection(clearConnectionTimeout(closed, s))
             [] variant = "queued" ->
                  /\ sockets' = closed
                  /\ connected' = FALSE
                  /\ keepAliveInterval' = clearKept(keepAliveInterval)
                  /\ orphanTimers' = IF isShuttingDown THEN orphanTimers
                                     ELSE orphanTimers + 1
                  /\ retryDelay' = IF isShuttingDown THEN retryDelay
                                   ELSE reconnectDelay
                  /\ UNCHANGED <<socket, retryTimer, reconnectAttempts,
                                 retryScheduled, healthCheckInterval>>

\* socket.on('timeout'): socket s was idle; the handler destroys this.socket
\* (a TypeError when this.socket is null: the handler then changes nothing).
SocketTimeout(s) ==
    /\ Live(sockets[s])
    /\ NoDispatch
    /\ sockets' = destroy(sockets, socket)
    /\ wrote' = FALSE
    /\ UNCHANGED <<socket, connected, isShuttingDown, retryTimer, orphanTimers,
                   retryDelay, reconnectAttempts, retryScheduled,
                   keepAliveInterval, orphanKeepAlives, healthCheckInterval,
                   orphanHealthChecks, dataFresh, configVars>>

(***************************************************************************)
(* Timer callbacks                                                         *)
(***************************************************************************)
\* The connectionTimeout of the connect() call that made socket s (enhanced).
ConnectionTimeout(s) ==
    /\ sockets[s].ct
    /\ NoDispatch
    /\ sockets' = IF connected THEN clearConnectionTimeout(sockets, s)
                  ELSE destroy(clearConnectionTimeout(sockets, s), socket)
    /\ wrote' = FALSE
    /\ UNCHANGED <<socket, connected, isShuttingDown, retryTimer, orphanTimers,
                   retryDelay, reconnectAttempts, retryScheduled,
                   keepAliveInterval, orphanKeepAlives, healthCheckInterval,
                   orphanHealthChecks, dataFresh, configVars>>

RetryTimerFiresResetting(named) ==
    /\ Len(sockets) < MaxSockets
    /\ NoDispatch
    /\ IF named THEN retryTimer = "pending" ELSE orphanTimers > 0
    /\ retryTimer' = IF named THEN "fired" ELSE retryTimer
    /\ orphanTimers' = IF named THEN orphanTimers ELSE orphanTimers - 1
    /\ retryScheduled' = IF variant = "enhanced" THEN FALSE ELSE retryScheduled
    /\ IF variant = "basic" /\ isShuttingDown
       THEN UNCHANGED <<sockets, socket>>
       ELSE connect(sockets)
    /\ wrote' = FALSE
    /\ reconnectAttempts' = 0
    /\ UNCHANGED <<connected, isShuttingDown, retryDelay,
                   keepAliveInterval, orphanKeepAlives, healthCheckInterval,
                   orphanHealthChecks, dataFresh, configVars>>

\* A pending reconnection timer expires; named tells whether it is the one
\* this.retryTimer names.
RetryTimerFires(named) ==
    /\ Len(sockets) < MaxSockets
    /\ NoDispatch
    /\ IF named THEN retryTimer = "pending" ELSE orphanTimers > 0
    /\ retryTimer' = IF named THEN "fired" ELSE retryTimer
    /\ orphanTimers' = IF named THEN orphanTimers ELSE orphanTimers - 1
    /\ retryScheduled' = IF variant = "enhanced" THEN FALSE ELSE retryScheduled
    /\ IF variant = "basic" /\ isShuttingDown
       THEN UNCHANGED <<sockets, socket>>
       ELSE connect(sockets)
    /\ wrote' = FALSE
    /\ UNCHANGED <<connected, isShuttingDown, retryDelay, reconnectAttempts,
                   keepAliveInterval, orphanKeepAlives, healthCheckInterval,
                   orphanHealthChecks, dataFresh, configVars>>

\* A running keep-alive interval fires.
KeepAlive ==
    /\ keepAliveInterval = "active" \/ orphanKeepAlives > 0
    /\ NoDispatch
    /\ wrote' = queryLEDWrites(connected, socket)
    /\ UNCHANGED <<sockets, socket, connected, isShuttingDown, retryTimer,
                   orphanTimers, retryDelay, reconnectAttempts, retryScheduled,
                   keepAliveInterval, orphanKeepAlives, healthCheckInterval,
                   orphanHealthChecks, dataFresh, configVars>>

\* A running health-check interval fires (enhanced).
HealthCheck ==
    /\ healthCheckInterval = "active" \/ orphanHealthChecks > 0
    /\ NoDispatch
    /\ wrote' = FALSE
    /\ UNCHANGED <<isShuttingDown, dataFresh, orphanKeepAlives,
                   orphanHealthChecks, configVars>>
    /\ IF connected /\ ~isShuttingDown /\ ~dataFresh
       THEN handleDisconnection(sockets)
       ELSE UNCHANGED <<sockets, socket, connected, retryTimer, orphanTimers,
                        retryDelay, reconnectAttempts, retryScheduled,
                        keepAliveInterval, healthCheckInterval>>

\* More than the freshness window (120000 ms) passes without data.
TimePasses ==
    /\ variant = "enhanced"
    /\ NoDispatch
    /\ dataFresh
    /\ dataFresh' = FALSE
    /\ sockets' = [s \in DOMAIN sockets |-> [sockets[s] EXCEPT !.rx = FALSE]]
    /\ wrote' = FALSE
    /\ UNCHANGED <<socket, connected, isShuttingDown, retryTimer,
                   orphanTimers, retryDelay, reconnectAttempts, retryScheduled,
                   keepAliveInterval, orphanKeepAlives, healthCheckInterval,
                   orphanHealthChecks, configVars>>

(***************************************************************************)
(* Homebridge api events                                                   *)
(***************************************************************************)
\* api.on('shutdown').
Shutdown ==
    /\ ~isShuttingDown
    /\ NoDispatch
    /\ isShuttingDown' = TRUE
    /\ wrote' = FALSE
    /\ UNCHANGED <<orphanTimers, retryDelay, reconnectAttempts, retryScheduled,
                   orphanKeepAlives, orphanHealthChecks, dataFresh, configVars>>
    /\ IF variant = "enhanced"
       THEN /\ cleanupConnection(sockets)
            /\ retryTimer' = "null"
       ELSE /\ keepAliveInterval' = clearKept(keepAliveInterval)
            /\ sockets' = destroy(sockets, socket)
            /\ UNCHANGED <<socket, connected, retryTimer, healthCheckInterval>>


(***************************************************************************)
(* Device data, HTTP requests, accessory setup                             *)
(***************************************************************************)
\* The number of events the queue may hold.
MaxQueue == 2

\* socket.on('data'): a chunk arrives on socket s.
DeviceData(s, chunk) ==
    /\ sockets[s].st = "open"
    /\ dataFresh' = IF variant = "enhanced" THEN TRUE ELSE dataFresh
    /\ sockets' = IF variant = "enhanced" THEN [sockets EXCEPT ![s].rx = TRUE]
                  ELSE sockets
    /\ Commit(handleDeviceData(Start, chunk))
    /\ UNCHANGED <<socket, connected, isShuttingDown, retryTimer,
                   orphanTimers, retryDelay, reconnectAttempts, retryScheduled,
                   keepAliveInterval, orphanKeepAlives, healthCheckInterval,
                   orphanHealthChecks, buttonServices, mappingSwitches,
                   launched, configVars>>

\* The same, while the queue has room for the events of the chunk.
SocketData(s, chunk) ==
    /\ chunk.json => Len(eventQueue) + Len(chunk.events) <= MaxQueue
    /\ DeviceData(s, chunk)

\* POST /action/button/:buttonNumber with the number n (NaN when the
\* parameter is not a number).  The server is closed by the shutdown handler.
HttpButton(n) ==
    /\ ~isShuttingDown
    /\ IF variant = "queued" /\ (n = NaN \/ n < 1 \/ n > 10)
       THEN Commit(Start)
       ELSE Commit(executeButtonAction(Start, n))
    /\ UNCHANGED <<sockets, socket, connected, isShuttingDown, retryTimer,
                   orphanTimers, retryDelay, reconnectAttempts, retryScheduled,
                   keepAliveInterval, orphanKeepAlives, healthCheckInterval,
                   orphanHealthChecks, dataFresh, buttonServices,
                   mappingSwitches, launched, configVars>>

\* POST /action/led with the body {r, g, b} (queued variant).
HttpLed(c) ==
    /\ variant = "queued"
    /\ ~isShuttingDown
    /\ IF \E x \in {c.r, c.g, c.b} : x < 0 \/ x > 255
       THEN Commit(Start)
       ELSE Commit(setLED(Start, c))
    /\ UNCHANGED <<sockets, socket, connected, isShuttingDown, retryTimer,
                   orphanTimers, retryDelay, reconnectAttempts, retryScheduled,
                   keepAliveInterval, orphanKeepAlives, healthCheckInterval,
                   orphanHealthChecks, dataFresh, buttonServices,
                   mappingSwitches, launched, configVars>>

AllButtons == [len |-> 10, has |-> 0..9]

\* The mappings the accessory setup gives a virtual switch.
SceneMappings ==
    {i \in DOMAIN buttonMappings : buttonMappings[i].actionType = "scene"}

\* accessories(callback): what it leaves in this.buttonServices and
\* this.mappingSwitches.  The setup throws before it touches them
\* ("failEarly"), while it adds the button services ("failMid", after three
\* of them), or not at all ("ok").
accessoriesServices(outcome) ==
    CASE outcome = "ok" -> AllButtons
      [] outcome = "failMid" -> [len |-> 3, has |-> 0..2]
      [] OTHER -> buttonServices

accessoriesSwitches(outcome) ==
    IF outcome = "ok" /\ variant = "queued" THEN SceneMappings ELSE mappingSwitches

\* api.on('didFinishLaunching'): accessories(...), and in the queued variant
\* processQueuedEvents() (inside a successful setup, and after it).
DidFinishLaunching(outcome) ==
    /\ ~launched
    /\ launched' = TRUE
    /\ buttonServices' = accessoriesServices(outcome)
    /\ mappingSwitches' = accessoriesSwitches(outcome)
    /\ IF variant = "queued"
       THEN Commit(processQueuedEvents(Start, accessoriesServices(outcome)))
       ELSE Commit(Start)
    /\ UNCHANGED <<sockets, socket, connected, isShuttingDown, retryTimer,
                   orphanTimers, retryDelay, reconnectAttempts, retryScheduled,
                   keepAliveInterval, orphanKeepAlives, healthCheckInterval,
                   orphanHealthChecks, dataFresh, configVars>>

\* The button services a cached accessory may hold.
CachedServices == {[len |-> 0, has |-> {}], AllButtons, [len |-> 3, has |-> {2}]}

\* configureAccessory(accessory) of the queued variant, Homebridge restoring
\* a cached accessory before didFinishLaunching; cached holds the button
\* services of the accessory, and its switches are those of the scene
\* mappings.  (The other variants only store the accessory.)
ConfigureAccessory(cached) ==
    /\ variant = "queued"
    /\ ~launched
    /\ buttonServices' = cached
    /\ mappingSwitches' = SceneMappings
    /\ Commit(processQueuedEvents(Start, cached))
    /\ UNCHANGED <<sockets, socket, connected, isShuttingDown, retryTimer,
                   orphanTimers, retryDelay, reconnectAttempts, retryScheduled,
                   keepAliveInterval, orphanKeepAlives, healthCheckInterval,
                   orphanHealthChecks, dataFresh, launched, configVars>>

(***************************************************************************)
(* The session: every socket and timer callback, with chunks that carry    *)
(* nothing to decode.                                                      *)
(***************************************************************************)
SessionChunks == {[json |-> FALSE, str |-> <<"?">>]}

NextSession ==
    \/ \E s \in DOMAIN sockets : SocketConnected(s)
    \/ \E s \in DOMAIN sockets : SocketError(s)
    \/ \E s \in DOMAIN sockets : SocketClose(s)
    \/ \E s \in DOMAIN sockets : SocketTimeout(s)
    \/ \E s \in DOMAIN sockets : ConnectionTimeout(s)
    \/ \E s \in DOMAIN sockets, chunk \in SessionChunks : SocketData(s, chunk)
    \/ \E named \in BOOLEAN : RetryTimerFires(named)
    \/ KeepAlive
    \/ HealthCheck
    \/ TimePasses
    \/ Shutdown

SpecSession == Init /\ [][NextSession]_vars

(***************************************************************************)
(* Backoff: the enhanced variant under configured delays.                  *)
(***************************************************************************)
ConfiguredDelays == {5000, 10000}
ConfiguredMaxDelays == {60000, 300000}

InitBackoff ==
    /\ variant = "enhanced"
    /\ reconnectDelay \in ConfiguredDelays
    /\ maxReconnectDelay \in ConfiguredMaxDelays
    /\ buttonMappings = <<>>
    /\ InitSession
    /\ InitDispatch

SpecBackoff == InitBackoff /\ [][NextSession]_vars

(***************************************************************************)
(* Buttons and dispatch: one connection (reconnection timers are scheduled *)
(* and do not expire), frames with button events and LED values, direct    *)
(* HTTP requests, accessory setup and shutdown.                            *)
(***************************************************************************)
\* The label of button n (1-based) as the device sends it: "Key n".
Numeral(n) == IF n < 10 THEN <<Digits[n + 1]>>
              ELSE <<Digits[(n \div 10) + 1], Digits[(n % 10) + 1]>>
Label(n) == <<"K", "e", "y", " ">> \o Numeral(n)

\* An event of a frame: button n (1-based) pressed ("1") or released ("0").
Event(n, state) == [label |-> Label(n), state |-> <<state>>]

\* LED values as the device reports them.
Red9 == <<"2", "5", "5", "0", "0", "0", "0", "0", "0">>
Blue9 == <<"0", "0", "0", "0", "0", "0", "2", "5", "5">>

\* The frames of the button state machine: up to MaxEvents events about the
\* buttons 3 and 6, with or without an LED value.
MaxEvents == 2
ButtonEvents == {Event(n, state) : n \in {3, 6}, state \in {"0", "1"}}
ButtonFrames ==
    [json : {TRUE}, led : {<<>>, Red9},
     events : UNION {[1..n -> ButtonEvents] : n \in 0..MaxEvents}]

\* The two mappings of the dispatch example: button 3, red and any.
ExampleTable(a, b) ==
    <<[buttonNumber |-> 3, modeColor |-> "red", actionType |-> a, ledColor |-> ""],
      [buttonNumber |-> 3, modeColor |-> "any", actionType |-> b, ledColor |-> ""]>>

InitButtons ==
    /\ variant \in Variants
    /\ DefaultConfig
    /\ buttonMappings \in {<<>>, ExampleTable("lifx", "accessory")}
    /\ InitSession
    /\ InitDispatch

SetupOutcomes == {"ok", "failEarly", "failMid"}

NextButtons ==
    \/ \E s \in DOMAIN sockets : SocketConnected(s)
    \/ \E s \in DOMAIN sockets : SocketClose(s)
    \/ \E s \in DOMAIN sockets, chunk \in ButtonFrames : SocketData(s, chunk)
    \/ \E outcome \in SetupOutcomes : DidFinishLaunching(outcome)
    \/ \E cached \in CachedServices : ConfigureAccessory(cached)
    \/ Shutdown

SpecButtons == InitButtons /\ [][NextButtons]_vars

(***************************************************************************)
(* Dispatch: every mapping table of up to MaxMappings mappings, and tables *)
(* with 'led' and 'scene' mappings; presses and releases of button 3 and   *)
(* direct HTTP requests for the buttons 3 and 10 on one connection.  The   *)
(* LED colour changes through the mode cycle.                              *)
(***************************************************************************)
\* The mappings are for button 3 or 10, for the mode red or any mode, of
\* type 'lifx' (known to the basic and enhanced variants only) or
\* 'accessory' (known to the queued variant only).
MaxMappings == 2
MappingChoices ==
    {[buttonNumber |-> n, modeColor |-> m, actionType |-> a, ledColor |-> ""] :
        n \in {3, 10}, m \in {"red", "any"}, a \in {"lifx", "accessory"}}
MappingTables == UNION {[1..n -> MappingChoices] : n \in 0..MaxMappings}

LedTable ==
    <<[buttonNumber |-> 3, modeColor |-> "any", actionType |-> "led",
       ledColor |-> "BLUE"],
      [buttonNumber |-> 3, modeColor |-> "blue", actionType |-> "scene",
       ledColor |-> ""]>>

InitMappings ==
    /\ variant \in Variants
    /\ DefaultConfig
    /\ buttonMappings \in MappingTables \cup {LedTable}
    /\ InitSession
    /\ InitDispatch

MappingFrames ==
    [json : {TRUE}, led : {<<>>},
     events : {<<Event(3, state)>> : state \in {"0", "1"}}]

HttpButtons == {3, 10}

NextMappings ==
    \/ \E s \in DOMAIN sockets : SocketConnected(s)
    \/ \E s \in DOMAIN sockets, chunk \in MappingFrames : SocketData(s, chunk)
    \/ \E n \in HttpButtons : HttpButton(n)
    \/ DidFinishLaunching("ok")

SpecMappings == InitMappings /\ [][NextMappings]_vars

(***************************************************************************)
(* Mode classification: the device reports LED values over the channel     *)
(* values of Channels, and direct HTTP requests for button 3, which has a  *)
(* mapping, make executeButtonAction compute the mode.                     *)
(***************************************************************************)
Channels == {0, 2, 10, 20, 30, 128, 255, 999}

\* A channel as the three digits of the device, and an LED value.
Digits3(n) ==
    <<Digits[(n \div 100) + 1], Digits[((n \div 10) % 10) + 1], Digits[(n % 10) + 1]>>
Led9(r, g, b) == Digits3(r) \o Digits3(g) \o Digits3(b)

ModeFrames ==
    {[json |-> TRUE, led |-> Led9(r, g, b), events |-> <<>>] :
        r \in Channels, g \in Channels, b \in Channels}

ModeTable ==
    <<[buttonNumber |-> 3, modeColor |-> "any", actionType |-> "lifx",
       ledColor |-> ""]>>

InitMode ==
    /\ variant \in Variants
    /\ DefaultConfig
    /\ buttonMappings = ModeTable
    /\ InitSession
    /\ InitDispatch

NextMode ==
    \/ \E s \in DOMAIN sockets : SocketConnected(s)
    \/ \E s \in DOMAIN sockets, chunk \in ModeFrames : SocketData(s, chunk)
    \/ HttpButton(3)

SpecMode == InitMode /\ [][NextMode]_vars

(***************************************************************************)
(* Brightness: the device reports the saturated palette colours at every   *)
(* brightness level, and direct HTTP requests for button 3 make            *)
(* executeButtonAction compute the mode.                                   *)
(***************************************************************************)
Levels == 1..255

\* The saturated colours at level k, with the palette name of each.
Saturated(k) ==
    {[name |-> "red",    r |-> k, g |-> 0, b |-> 0],
     [name |-> "green",  r |-> 0, g |-> k, b |-> 0],
     [name |-> "blue",   r |-> 0, g |-> 0, b |-> k],
     [name |-> "yellow", r |-> k, g |-> k, b |-> 0],
     [name |-> "white",  r |-> k, g |-> k, b |-> k]}

\* The plugin after the device has reported one of these colours.
InitScale ==
    /\ variant \in Variants
    /\ DefaultConfig
    /\ buttonMappings = ModeTable
    /\ InitSession
    /\ \E k \in Levels : \E c \in Saturated(k) :
          ledColor = [r |-> c.r, g |-> c.g, b |-> c.b]
    /\ buttonStates = [i \in 0..9 |-> 0]
    /\ currentColorIndex = 0
    /\ buttonServices = [len |-> 0, has |-> {}]
    /\ mappingSwitches = {}
    /\ eventQueue = <<>>
    /\ launched = FALSE
    /\ triggered = <<>>
    /\ executed = <<>>
    /\ cycled = 0
    /\ handled = <<>>
    /\ dispatched = <<>>
    /\ modeLog = <<>>
    /\ selected = <<>>
    /\ ledCalls = <<>>
    /\ sent = <<>>
    /\ stateReads = <<>>

NextScale ==
    \/ \E s \in DOMAIN sockets : SocketConnected(s)
    \/ HttpButton(3)

SpecScale == InitScale /\ [][NextScale]_vars

(***************************************************************************)
(* The LED: the device reports LED values in the three forms the data      *)
(* handler decodes and echoes the commands it receives; direct HTTP        *)
(* requests set the LED and cycle the mode; the connection closes and the  *)
(* platform shuts down.                                                    *)
(***************************************************************************)
\* The channel values of the /action/led requests: one, two and three
\* digits, and values outside 0..255.
LedChannels == {0, 7, 42, 255}
RequestChannels == LedChannels \cup {0 - 1, 256}

\* The LED values of the device: nine digits, fewer, a channel above 255, a
\* sign, and a character that is no digit.
DeviceLedValues ==
    {Led9(255, 0, 128), Led9(999, 0, 0), <<"2", "5", "5">>,
     <<"-", "1", "2", "0", "0", "0", "0", "0", "0">>,
     <<"x", "0", "0", "0", "0", "0", "0", "0", "0">>}

LedChunks ==
    {[json |-> TRUE, led |-> v, events |-> <<>>] : v \in DeviceLedValues}
    \cup {[json |-> FALSE, str |-> LedEq \o v \o <<"\r">>] : v \in DeviceLedValues}
    \cup {[json |-> FALSE, str |-> v \o <<"\r", "\n">>] : v \in DeviceLedValues}

\* The device echoes the LED command the platform wrote last.
DeviceEcho(s) ==
    /\ sent # <<>>
    /\ SocketData(s, [json |-> FALSE, str |-> sent])

InitLed ==
    /\ variant \in Variants
    /\ DefaultConfig
    /\ buttonMappings = <<>>
    /\ InitSession
    /\ InitDispatch

NextLed ==
    \/ \E s \in DOMAIN sockets : SocketConnected(s)
    \/ \E s \in DOMAIN sockets : SocketClose(s)
    \/ \E s \in DOMAIN sockets, chunk \in LedChunks : SocketData(s, chunk)
    \/ \E s \in DOMAIN sockets : DeviceEcho(s)
    \/ \E c \in [r : RequestChannels, g : RequestChannels, b : RequestChannels] :
          HttpLed(c)
    \/ HttpButton(10)
    \/ KeepAlive
    \/ Shutdown

SpecLed == InitLed /\ [][NextLed]_vars

(***************************************************************************)
(* The readiness queue: the device reports a press and the release of      *)
(* button 3 or of button 6 in one frame, or a press of button 3; up to     *)
(* MaxPending events wait in the queue.  The accessory setup succeeds or   *)
(* fails, Homebridge restores a cached accessory or none.                  *)
(***************************************************************************)
MaxPending == 4

PressRelease(n) == <<Event(n, "1"), Event(n, "0")>>
QueueFrames ==
    {[json |-> TRUE, led |-> <<>>, events |-> es] :
        es \in {PressRelease(3), PressRelease(6), <<Event(3, "1")>>}}

QueueData(s, chunk) ==
    /\ Len(eventQueue) + Len(chunk.events) <= MaxPending
    /\ DeviceData(s, chunk)

InitQueue ==
    /\ variant \in Variants
    /\ DefaultConfig
    /\ buttonMappings = <<>>
    /\ InitSession
    /\ InitDispatch

NextQueue ==
    \/ \E s \in DOMAIN sockets : SocketConnected(s)
    \/ \E s \in DOMAIN sockets : SocketClose(s)
    \/ \E s \in DOMAIN sockets, chunk \in QueueFrames : QueueData(s, chunk)
    \/ \E outcome \in SetupOutcomes : DidFinishLaunching(outcome)
    \/ \E cached \in CachedServices : ConfigureAccessory(cached)
    \/ Shutdown

SpecQueue == InitQueue /\ [][NextQueue]_vars

(***************************************************************************)
(* Event labels: the device reports events whose labels name the buttons   *)
(* 1 and 10, the numbers 0 and 11, and no number.                          *)
(***************************************************************************)
EventLabels ==
    {Label(1), Label(10), Label(0), Label(11), <<"K", "e", "y", " ", "x">>}
LabelEvents ==
    {[label |-> l, state |-> <<state>>] : l \in EventLabels, state \in {"0", "1"}}
LabelFrames ==
    [json : {TRUE}, led : {<<>>},
     events : UNION {[1..n -> LabelEvents] : n \in 1..2}]

InitLabels ==
    /\ variant \in Variants
    /\ DefaultConfig
    /\ buttonMappings = <<>>
    /\ InitSession
    /\ InitDispatch

NextLabels ==
    \/ \E s \in DOMAIN sockets : SocketConnected(s)
    \/ \E s \in DOMAIN sockets, chunk \in LabelFrames : SocketData(s, chunk)
    \/ DidFinishLaunching("ok")

SpecLabels == InitLabels /\ [][NextLabels]_vars

(***************************************************************************)
(* Direct triggers: every button is pressed and released on the device and *)
(* triggered over HTTP, under the mapping tables of MappingTables, while   *)
(* the device reports LED values and button 10 cycles the colour.          *)
(***************************************************************************)
\* The buttons of the keypad, by number.
ButtonNumbers == 1..10

\* Mapping tables: none, the LED table, mappings of button 3 for the mode
\* red and for any mode of type 'lifx' (known to the basic and enhanced
\* variants) and of type 'accessory' (known to the queued variant), and a
\* mapping of button 10.
TriggerMapping(n, mode, type) ==
    [buttonNumber |-> n, modeColor |-> mode, actionType |-> type, ledColor |-> ""]
TriggerTables ==
    {<<>>,
     LedTable,
     <<TriggerMapping(3, "red", "lifx"), TriggerMapping(3, "any", "lifx")>>,
     <<TriggerMapping(3, "any", "accessory"), TriggerMapping(3, "red", "accessory")>>,
     <<TriggerMapping(10, "any", "lifx")>>}

InitTrigger ==
    /\ variant \in Variants
    /\ DefaultConfig
    /\ buttonMappings \in TriggerTables
    /\ InitSession
    /\ InitDispatch

TriggerFrames ==
    {[json |-> TRUE, led |-> <<>>, events |-> PressRelease(n)] : n \in ButtonNumbers}
        \cup {[json |-> TRUE, led |-> Red9, events |-> <<>>]}

NextTrigger ==
    \/ \E s \in DOMAIN sockets : SocketConnected(s)
    \/ \E s \in DOMAIN sockets : SocketClose(s)
    \/ \E s \in DOMAIN sockets, chunk \in TriggerFrames : SocketData(s, chunk)
    \/ \E n \in ButtonNumbers : HttpButton(n)
    \/ DidFinishLaunching("ok")

SpecTrigger == InitTrigger /\ [][NextTrigger]_vars

(***************************************************************************)
(* Frames with both fields: the device reports an LED value together with  *)
(* presses and releases of button 3, which has mappings, and of button    *)
(* 10, which cycles the colour.                                            *)
(***************************************************************************)
FrameTable ==
    <<TriggerMapping(3, "any", "lifx"), TriggerMapping(3, "any", "accessory")>>

FrameButtons == {3, 10}
FrameLeds == {Red9}

\* Two events of these buttons in one frame: presses and releases.
FrameEvent == {Event(n, state) : n \in FrameButtons, state \in {"0", "1"}}
FrameEvents == [1..2 -> FrameEvent]

BothFrames == [json : {TRUE}, led : FrameLeds, events : FrameEvents]

InitBoth ==
    /\ variant \in Variants
    /\ DefaultConfig
    /\ buttonMappings = FrameTable
    /\ InitSession
    /\ InitDispatch

NextBoth ==
    \/ \E s \in DOMAIN sockets : SocketConnected(s)
    \/ \E s \in DOMAIN sockets, chunk \in BothFrames : SocketData(s, chunk)
    \/ DidFinishLaunching("ok")

SpecBoth == InitBoth /\ [][NextBoth]_vars

(***************************************************************************)
(* Recovery: shutdown never happens; the device refuses the first          *)
(* connections and, once it has accepted one, accepts every connection and *)
(* delivers data in time.  Timers and socket callbacks are scheduled       *)
(* fairly, in the order Node runs them: the 'close' event of a destroyed   *)
(* socket is emitted in the turn of the event loop that destroyed it,      *)
(* before any other callback; a timer that this.retryTimer no longer names *)
(* was set earlier and with a delay that is not longer than the one of the *)
(* timer that replaced it, and expires first.                              *)
(***************************************************************************)
\* The connections the device may refuse.
FaultySockets == 2

\* A socket has been destroyed and its 'close' event is still to come.
ClosePending == \E s \in DOMAIN sockets : sockets[s].st = "destroyed"

\* The device has accepted a connection.
Accepting == connected \/ \E s \in DOMAIN sockets : sockets[s].st = "open"

\* The device refuses the connection of socket s.
ConnectionRefused(s) ==
    /\ s <= FaultySockets
    /\ sockets[s].st = "connecting"
    /\ ~Accepting
    /\ SocketError(s)

NextRecover ==
    \/ \E s \in DOMAIN sockets : ~ClosePending /\ ConnectionRefused(s)
    \/ \E s \in DOMAIN sockets : sockets[s].st = "destroyed" /\ SocketClose(s)
    \/ \E s \in DOMAIN sockets : ~ClosePending /\ SocketConnected(s)
    \/ \E s \in DOMAIN sockets, chunk \in SessionChunks :
          ~ClosePending /\ SocketData(s, chunk)
    \/ \E named \in BOOLEAN :
          /\ ~ClosePending
          /\ named => orphanTimers = 0
          /\ RetryTimerFires(named)
    \/ ~ClosePending /\ KeepAlive
    \/ ~ClosePending /\ dataFresh /\ HealthCheck

\* Every pending 'close' is delivered, every handshake the device accepts
\* completes unless the socket is destroyed first, every pending timer
\* expires.
FairRecover ==
    /\ WF_vars(\E s \in DOMAIN sockets :
                  sockets[s].st = "destroyed" /\ SocketClose(s))
    /\ WF_vars(\E s \in DOMAIN sockets : ~ClosePending /\ SocketConnected(s))
    /\ WF_vars(\E named \in BOOLEAN :
                  /\ ~ClosePending
                  /\ named => orphanTimers = 0
                  /\ RetryTimerFires(named))

SpecRecover == Init /\ [][NextRecover]_vars /\ FairRecover

(***************************************************************************)
(* Claims about the session                                                *)
(***************************************************************************)
\* The reconnection timers that are pending.
PendingTimers == orphanTimers + (IF retryTimer = "pending" THEN 1 ELSE 0)

\* C1: in every reachable state at most one reconnection timer is pending.
C1_AtMostOnePendingTimer == PendingTimers <= 1

\* C2: at most one socket is live at any time: no socket other than the one
\* held in this.socket is connecting or open.
C2_OnlyCurrentSocketLive ==
    \A s \in DOMAIN sockets : Live(sockets[s]) => s = socket

\* C3: once the shutdown handler has run, connect() is never executed again:
\* no step taken while isShuttingDown holds creates a socket.
C3_NoConnectAfterShutdown ==
    [][isShuttingDown => Len(sockets') = Len(sockets)]_vars

(***************************************************************************)
(* Claims about the button state machine                                   *)
(***************************************************************************)
\* The triggers the button state machine of the specification emits for a
\* list of events, from the pressed flags pressed: a release of a pressed
\* button emits one trigger and releases it, a press marks it pressed.
RECURSIVE RefTriggers(_, _)
RefTriggers(pressed, events) ==
    IF events = <<>> THEN <<>>
    ELSE LET e == Head(events)
         IN  IF e.state = 1
             THEN RefTriggers([pressed EXCEPT ![e.buttonIndex] = 1], Tail(events))
             ELSE IF e.state = 0 /\ pressed[e.buttonIndex] = 1
             THEN <<e.buttonIndex>>
                  \o RefTriggers([pressed EXCEPT ![e.buttonIndex] = 0], Tail(events))
             ELSE RefTriggers(pressed, Tail(events))

\* C4: the triggers a callback emits for the events it handles
\* while connected and not shutting down are those of the button state
\* machine: one per release of a pressed button, for every button index.
C4_TriggerPerPressRelease ==
    [][connected /\ ~isShuttingDown
          => triggered' = RefTriggers(buttonStates, handled')]_vars

(***************************************************************************)
(* Claims about the reconnection backoff                                   *)
(***************************************************************************)
\* 2^k for k in 0..5, and the delays of the specification for base 10 s and
\* ceiling 300 s (ms).
Doubling == <<1, 2, 4, 8, 16, 32>>
TenSecondDelays == <<10000, 20000, 40000, 80000, 160000, 300000, 300000>>

\* The delay the specification gives for a counter value: the base delay
\* doubled once per attempt, five times at most, and not above the ceiling.
SpecDelay(attempts) ==
    LET doubled == reconnectDelay * Doubling[(IF attempts > 5 THEN 5 ELSE attempts) + 1]
    IN  IF doubled > maxReconnectDelay THEN maxReconnectDelay ELSE doubled

\* C5: whenever disconnection handling increments the counter, the timer it
\* schedules has the delay of the specification for the counter value
\* before the increment; with base 10 s and ceiling 300 s the attempts 0..6
\* give 10, 20, 40, 80, 160, 300, 300 seconds.
C5_BackoffDelay ==
    [][reconnectAttempts' = reconnectAttempts + 1
          => /\ retryDelay' = SpecDelay(reconnectAttempts)
             /\ (/\ reconnectDelay = 10000
                 /\ maxReconnectDelay = 300000
                 /\ reconnectAttempts <= 6)
                => retryDelay' = TenSecondDelays[reconnectAttempts + 1]]_vars

\* The seventh consecutive failure (attempts = 6) under base 10 s and
\* ceiling 300 s has scheduled a timer of 300 s.
C5_Witness ==
    /\ reconnectDelay = 10000
    /\ maxReconnectDelay = 300000
    /\ reconnectAttempts = 7
    /\ retryDelay = 300000
    /\ retryTimer = "pending"

(***************************************************************************)
(* Claims about the dispatch                                               *)
(***************************************************************************)
Range(s) == {s[i] : i \in DOMAIN s}

\* The mappings of button n, and whether the variant hands every one of
\* them to a collaborator when it runs it.
MappingsOf(n) == {i \in DOMAIN buttonMappings : buttonMappings[i].buttonNumber = n}
Handed(i) ==
    IF variant = "queued" THEN buttonMappings[i].actionType \in {"accessory", "led"}
    ELSE buttonMappings[i].actionType = "lifx"

\* The table is a "red" mapping and an "any" mapping of button n.
RedAndAny(n) ==
    /\ Len(buttonMappings) = 2
    /\ MappingsOf(n) = {1, 2}
    /\ {buttonMappings[1].modeColor, buttonMappings[2].modeColor} = {"red", "any"}
    /\ Handed(1) /\ Handed(2)
TheMapping(m) == CHOOSE i \in DOMAIN buttonMappings : buttonMappings[i].modeColor = m

\* C6: with a "red" mapping A and an "any" mapping B of one button,
\* executeButtonAction for that button executes only A when the mode is
\* "red" and only B when the mode is "blue".
C6_RedThenAny ==
    [][\A n \in 1..9 :
          RedAndAny(n) /\ dispatched' = <<n>>
          => /\ modeLog' = <<"red">> => executed' = <<TheMapping("red")>>
             /\ modeLog' = <<"blue">> => executed' = <<TheMapping("any")>>]_vars

C8_ButtonTenOnlyCycles ==
    [][dispatched' = <<10>>
          => /\ cycled' = 1
             /\ currentColorIndex' = (currentColorIndex + 1) % Len(colorCycle)
             /\ selected' = <<>>
             /\ executed' = <<>>
             /\ modeLog' = <<>>]_vars

\* executeButtonAction(10) has cycled the mode under a table with an "any"
\* mapping of button 10 that the variant supports.
C8_Witness ==
    /\ dispatched = <<10>>
    /\ cycled = 1
    /\ \E i \in MappingsOf(10) : Handed(i) /\ buttonMappings[i].modeColor = "any"

(***************************************************************************)
(* Claims about the mode classification                                    *)
(***************************************************************************)
\* C9: getCurrentMode on the palette RGB of a named colour returns the name
\* of that colour; (255,0,0) gives "red" and (128,0,128) gives "purple".
C9_PaletteColoursNamed ==
    [][modeLog' # <<>>
          => \A i \in DOMAIN modeColors :
                (/\ ledColor.r = modeColors[i].r
                 /\ ledColor.g = modeColors[i].g
                 /\ ledColor.b = modeColors[i].b)
                => modeLog' = <<modeColors[i].name>>]_vars

\* The integer nearest to 255 * x / max, the upper one of two.
Nearest(x, max) ==
    CHOOSE k \in 0..255 : (2 * k - 1) * max <= 510 * x /\ 510 * x < (2 * k + 1) * max

\* The mode of the specification for a colour: "off" for black, else the
\* name of the palette colour that equals the colour scaled to a maximum of
\* 255, "unknown" when there is none.
RefMode(c) ==
    LET max == IF c.r >= c.g /\ c.r >= c.b THEN c.r
               ELSE IF c.g >= c.b THEN c.g ELSE c.b
        names == {modeColors[i].name : i \in
                    {j \in DOMAIN modeColors :
                        /\ modeColors[j].r = Nearest(c.r, max)
                        /\ modeColors[j].g = Nearest(c.g, max)
                        /\ modeColors[j].b = Nearest(c.b, max)}}
    IN  IF c = [r |-> 0, g |-> 0, b |-> 0] THEN "off"
        ELSE IF names = {} THEN "unknown"
        ELSE CHOOSE name \in names : TRUE

\* C10: getCurrentMode returns "off" exactly when all three channels are
\* zero, and otherwise the palette name of the colour scaled to a maximum of
\* 255 with rounding to nearest, "unknown" when no palette colour equals
\* it; (10,20,30) gives "unknown".
C10_ModeClassification ==
    [][modeLog' # <<>>
          => /\ modeLog' = <<RefMode(ledColor)>>
             /\ modeLog' = <<"off">> <=> ledColor = [r |-> 0, g |-> 0, b |-> 0]
             /\ ledColor = [r |-> 10, g |-> 20, b |-> 30] => modeLog' = <<"unknown">>]_vars

\* The mode of (10,20,30) has been computed: "unknown".
C10_Witness ==
    /\ ledColor = [r |-> 10, g |-> 20, b |-> 30]
    /\ modeLog = <<"unknown">>

(***************************************************************************)
(* Claims about the LED                                                    *)
(***************************************************************************)
\* C11: setLED(r,g,b) always sets this.ledColor to (r,g,b): after a callback
\* that has called setLED the colour is the one of its last call.
C11_SetLedStoresColour ==
    [][ledCalls' # <<>> => ledColor' = ledCalls'[Len(ledCalls')]]_vars

\* C12: no callback writes to the socket through setLED, queryLED or the
\* keep-alive probe while connected is false or isShuttingDown is true
\* (neither flag changes in such a callback).
C12_NoWriteWhileDown ==
    [][(/\ connected' = connected
        /\ isShuttingDown' = isShuttingDown
        /\ ~connected \/ isShuttingDown)
          => ~wrote' /\ sent' = <<>>]_vars

\* setLED has been called while disconnected, and nothing was written.
C12_Witness ==
    /\ ledCalls # <<>>
    /\ ~connected
    /\ ~wrote
    /\ sent = <<>>

\* C13: when the device echoes the command setLED has written for (r,g,b),
\* parseAndSetLedFromString yields (r,g,b) again; "255000128" parses to
\* r = 255, g = 0, b = 128.
C13_RoundTrip ==
    [][(\E s \in DOMAIN sockets : DeviceEcho(s))
          => /\ ledColor' = ledCalls[Len(ledCalls)]
             /\ ledCalls[Len(ledCalls)].r \in 0..255
             /\ parseAndSetLedFromString(Led9(255, 0, 128))
                   = [r |-> 255, g |-> 0, b |-> 128]]_vars

\* setLED has written the command of (7,42,255), channels of one, two and
\* three digits, which parses to that colour.
C13_Witness ==
    /\ sent = <<"\r", "l", "e", "d", "=", "0", "0", "7", "0", "4", "2",
               "2", "5", "5", "\r">>
    /\ ledCalls = <<[r |-> 7, g |-> 42, b |-> 255]>>
    /\ parseAndSetLedFromString(SubSeq(sent, 6, 14)) = ledColor

\* C17: in every reachable state each channel of ledColor is an integer in
\* 0..255.
C17_ChannelsInRange ==
    /\ ledColor.r \in 0..255
    /\ ledColor.g \in 0..255
    /\ ledColor.b \in 0..255

(***************************************************************************)
(* Claims about the readiness queue                                        *)
(***************************************************************************)
\* A readiness signal of the queued variant: a callback that calls
\* processQueuedEvents().
ReadinessSignal ==
    /\ variant = "queued"
    /\ \/ \E outcome \in SetupOutcomes : DidFinishLaunching(outcome)
       \/ \E cached \in CachedServices : ConfigureAccessory(cached)

\* The queue of the example: press and release of index 2, then of index 5.
ExampleQueue ==
    <<[buttonIndex |-> 2, state |-> 1], [buttonIndex |-> 2, state |-> 0],
      [buttonIndex |-> 5, state |-> 1], [buttonIndex |-> 5, state |-> 0]>>

\* C14: a readiness signal hands the queued events to handleButtonEvent in
\* arrival order, each once, and leaves the queue empty (a later signal
\* finds none of them); when the session is connected and not shutting
\* down and the buttons have their services, the triggers are those of the
\* state machine in that order, and the queue (2,1),(2,0),(5,1),(5,0) gives
\* exactly the triggers 2, 5.
C14_QueueDrainedInOrder ==
    [][ReadinessSignal
          => /\ handled' = eventQueue
             /\ eventQueue' = <<>>
             /\ (/\ connected /\ ~isShuttingDown
                 /\ \A i \in DOMAIN eventQueue :
                       eventQueue[i].buttonIndex \in buttonServices'.has)
                => /\ triggered' = RefTriggers(buttonStates, eventQueue)
                   /\ eventQueue = ExampleQueue => triggered' = <<2, 5>>]_vars

\* The queue of the example has been drained into the triggers 2, 5.
C14_Witness ==
    /\ handled = ExampleQueue
    /\ triggered = <<2, 5>>
    /\ eventQueue = <<>>
    /\ launched

\* C15: after the first readiness signal the event queue is empty and stays
\* empty, whatever the outcome of the accessory setup: once
\* didFinishLaunching has been handled, no event is in the queue.
C15_QueueUnusedAfterReadiness == launched => eventQueue = <<>>

\* C16: a button event handled while connected is false or isShuttingDown
\* is true emits no trigger, executes no action and leaves the button
\* states as they are.
C16_NoTriggerWhileDown ==
    [][(handled' # <<>> /\ (~connected \/ isShuttingDown))
          => /\ triggered' = <<>>
             /\ dispatched' = <<>>
             /\ executed' = <<>>
             /\ cycled' = 0
             /\ buttonStates' = buttonStates]_vars

\* A press and the release of a button have been handled while
\* disconnected, without a trigger.
C16_Witness ==
    /\ ~connected
    /\ Len(handled) = 2
    /\ handled[1].state = 1 /\ handled[2].state = 0
    /\ handled[1].buttonIndex = handled[2].buttonIndex
    /\ triggered = <<>>

\* C18: every index the button state array is read or written with lies in
\* 0..9, whatever label the event carries.
C18_IndexInRange == \A i \in DOMAIN stateReads : stateReads[i] \in 0..9

PressAndRelease(n) ==
    handleDeviceData(Start, [json |-> TRUE, led |-> <<>>, events |-> PressRelease(n)])

\* C20: for every button number, mapping table and LED state, a
\* direct-trigger HTTP request for button n executes the same actions and
\* makes the same LED and cycle-index changes as the trigger that a press
\* followed by a release of button n emits in the same state.
C20_HttpSameAsPhysical ==
    [][\A n \in ButtonNumbers :
          (HttpButton(n) /\ PressAndRelease(n).trig = <<n - 1>>)
             => /\ dispatched' = PressAndRelease(n).disp
                /\ executed' = PressAndRelease(n).exec
                /\ selected' = PressAndRelease(n).sel
                /\ modeLog' = PressAndRelease(n).modes
                /\ ledCalls' = PressAndRelease(n).leds
                /\ sent' = PressAndRelease(n).sent
                /\ cycled' = PressAndRelease(n).cyc
                /\ ledColor' = PressAndRelease(n).led
                /\ currentColorIndex' = PressAndRelease(n).idx]_vars

\* A direct trigger has executed a mapping of button 3 while the session is
\* connected and the button has its service, where the physical button
\* gives a trigger as well.
C20_Witness ==
    /\ connected
    /\ variant = "queued" => launched
    /\ triggered = <<>>
    /\ dispatched = <<3>>
    /\ executed # <<>>

\* C21: whenever a socket 'error', 'close' or idle 'timeout' event is
\* handled while not shutting down, the resulting state has connected =
\* false, the keep-alive and the health-check timer cancelled, the socket
\* destroyed and a reconnection timer pending.
C21_DisconnectionHandled ==
    [][(/\ ~isShuttingDown
        /\ \E s \in DOMAIN sockets :
              SocketError(s) \/ SocketClose(s) \/ SocketTimeout(s))
          => /\ ~connected'
             /\ keepAliveInterval' # "active"
             /\ healthCheckInterval' # "active"
             /\ socket # 0 => ~Live(sockets'[socket])
             /\ PendingTimers' >= 1]_vars

\* C22: when the health-check timer fires while connected and not shutting
\* down and no data has been received on the current session within the
\* freshness window, disconnection handling runs (socket destroyed,
\* reconnection scheduled); when data was received within the window the
\* session is left untouched.
C22_HealthCheckForcesReconnect ==
    [][(HealthCheck /\ connected /\ ~isShuttingDown /\ socket # 0)
          => IF sockets[socket].rx
             THEN UNCHANGED <<sockets, socket, connected, retryTimer, orphanTimers>>
             ELSE /\ ~connected'
                  /\ ~Live(sockets'[socket])
                  /\ retryTimer' = "pending"]_vars

\* C23: reconnectAttempts is set to zero only by the connection-established
\* callback; receiving data, writing, keep-alive probes and health checks
\* never reset it.
C23_AttemptsResetOnlyOnConnect ==
    [][(reconnectAttempts # 0 /\ reconnectAttempts' = 0)
          => \E s \in DOMAIN sockets : SocketConnected(s)]_vars

\* A connection has been established after failed attempts, and the counter
\* is back at zero.
C23_Witness ==
    /\ variant = "enhanced"
    /\ connected
    /\ reconnectAttempts = 0
    /\ retryDelay > 0
    /\ socket # 0 /\ sockets[socket].st = "open"

\* The sockets that have failed or have been destroyed.
EndedSockets == {s \in DOMAIN sockets : ~Live(sockets[s])}

\* C24: each failed connection attempt (one socket that errors and then
\* closes, or closes, or times out) increments reconnectAttempts by exactly
\* one: the counter never exceeds the number of sockets that have ended.
C24_OneIncrementPerFailure == reconnectAttempts <= Cardinality(EndedSockets)

\* The calls of handleButtonEvent that handling every event of a list in
\* order makes.
EventCalls(events) ==
    [i \in 1..Len(events) |->
        [buttonIndex |-> keyNum(events[i].label), state |-> parseInt(events[i].state)]]

\* One label of the list has a non-numeric suffix, the others name buttons.
OneMalformed(events) ==
    /\ \E i \in DOMAIN events : keyNum(events[i].label) = NaN
    /\ \A i \in DOMAIN events : keyNum(events[i].label) \in 0..9 \cup {NaN}

\* C25: in a structured frame whose events list contains an event with a
\* malformed label, that event is skipped and every other event of the
\* list, before and after it, is still processed in order: every event of
\* the frame is handed to handleButtonEvent.
C25_MalformedLabelSkipped ==
    [][\A s \in DOMAIN sockets, chunk \in LabelFrames :
          (/\ SocketData(s, chunk)
           /\ OneMalformed(chunk.events)
           /\ variant = "queued" => buttonServices.len # 0)
             => handled' = EventCalls(chunk.events)]_vars

\* A text of exactly nine decimal digits.
NineDigits(str) == Len(str) = 9 /\ \A i \in 1..9 : IsDigit(str[i])

\* The value of the three digits of str from position k on.
Field(str, k) ==
    100 * DigitVal(str[k]) + 10 * DigitVal(str[k + 1]) + DigitVal(str[k + 2])

\* C26: a received chunk whose trimmed text is exactly 9 decimal digits
\* (with or without leading zeros) sets ledColor to the three 3-digit
\* fields of that text.
C26_BareNineDigits ==
    [][\A s \in DOMAIN sockets, chunk \in LedChunks :
          (/\ ~chunk.json
           /\ NineDigits(trim(chunk.str))
           /\ ~isShuttingDown
           /\ SocketData(s, chunk))
             => ledColor' = [r |-> Field(trim(chunk.str), 1),
                             g |-> Field(trim(chunk.str), 4),
                             b |-> Field(trim(chunk.str), 7)]]_vars

\* A chunk that matches none of the parsing rules: no JSON object, no
\* 'led=' in it, and not nine digits.
Unparseable(chunk) ==
    /\ ~chunk.json
    /\ indexOf(trim(chunk.str), LedEq) = 0
    /\ ~NineDigits(trim(chunk.str))

\* C27: a chunk that matches none of the parsing rules is discarded: it
\* leaves ledColor, every button state, connected, reconnectAttempts and
\* the pending timers unchanged and does not trigger disconnection
\* handling.
C27_UnparseableDiscarded ==
    [][\A s \in DOMAIN sockets, chunk \in SessionChunks :
          (Unparseable(chunk) /\ SocketData(s, chunk))
             => /\ UNCHANGED <<ledColor, buttonStates, connected,
                               reconnectAttempts, retryTimer, orphanTimers,
                               socket, keepAliveInterval, healthCheckInterval>>
                /\ \A x \in DOMAIN sockets : sockets'[x].st = sockets[x].st]_vars

\* A session that was established by a reconnection has received a chunk
\* of this kind and is still connected.
C27_Witness ==
    /\ variant = "enhanced"
    /\ Len(sockets) >= 2
    /\ socket # 0 /\ sockets[socket].st = "open" /\ sockets[socket].rx
    /\ connected
    /\ \A chunk \in SessionChunks : Unparseable(chunk)

\* C28: each mode-cycle operation advances currentColorIndex by one modulo
\* 6 through red, green, blue, yellow, purple, white and back to red, and
\* after a cycle performed while connected ledColor is the palette RGB of
\* the colour at the new index and the classified mode is that colour's
\* name.
C28_CycleSetsMode ==
    [][cycled' = 1
          => /\ currentColorIndex' = (currentColorIndex + 1) % 6
             /\ (connected /\ ~isShuttingDown /\ socket # 0)
                   => LET name == colorCycle[currentColorIndex' + 1]
                      IN  /\ ledColor'.r = modeColor(name).r
                          /\ ledColor'.g = modeColor(name).g
                          /\ ledColor'.b = modeColor(name).b
                          /\ getCurrentMode(ledColor') = name]_vars

\* The action types the variant knows.
KnownTypes == IF variant = "queued" THEN {"accessory", "led", "scene"} ELSE {"lifx"}

\* The mappings of button n that match the mode: of that mode or of "any".
Matching(n, mode) ==
    {i \in MappingsOf(n) : buttonMappings[i].modeColor \in {"any", mode}}

\* C29: a matching mapping with an unknown actionType is skipped without
\* raising an error and without preventing the other matching mappings of
\* the same button from executing: it is not executed, and when the button
\* has matching mappings of types the variant hands on, they are executed
\* (all of them where the variant runs every matching mapping, one of them
\* where it runs one); a button with no mapping executes nothing and
\* changes no state.
C29_UnknownTypeSkipped ==
    [][\A n \in 1..9 :
          dispatched' = <<n>>
          => /\ \A i \in Range(executed') :
                   buttonMappings[i].actionType \in KnownTypes
             /\ MappingsOf(n) # {}
                   => LET matching == Matching(n, modeLog'[1])
                          handed == {i \in matching : Handed(i)}
                      IN  (\E i \in matching :
                              buttonMappings[i].actionType \notin KnownTypes)
                             => /\ handed # {} => Range(executed') \cap handed # {}
                                /\ variant # "queued" => handed \subseteq Range(executed')
             /\ MappingsOf(n) = {}
                   => /\ executed' = <<>> /\ selected' = <<>>
                      /\ ledCalls' = <<>> /\ sent' = <<>>
                      /\ UNCHANGED <<ledColor, currentColorIndex>>]_vars

\* C30: at most one keep-alive timer and at most one health-check timer are
\* active at any time: no interval started by an earlier connection is still
\* running beside the one the handle names.
C30_OneTimerOfEachKind ==
    orphanKeepAlives = 0 /\ orphanHealthChecks = 0

\* C31: the mode classification does not depend on the brightness of a
\* saturated palette colour: for every k in 1..255 the mode computed for
\* (k,0,0) is "red", for (0,k,0) "green", for (0,0,k) "blue", for (k,k,0)
\* "yellow" and for (k,k,k) "white".
C31_BrightnessInvariant ==
    [][modeLog' # <<>>
          => \A k \in Levels : \A c \in Saturated(k) :
                ledColor = [r |-> c.r, g |-> c.g, b |-> c.b]
                => modeLog' = <<c.name>>]_vars

\* The mode of a dim yellow has been computed: "yellow".
C31_Witness ==
    ledColor = [r |-> 77, g |-> 77, b |-> 0] /\ modeLog = <<"yellow">>

(***************************************************************************)
(* Claims about the current socket                                         *)
(***************************************************************************)
\* C32: in every reachable state, connected = true implies that this.socket
\* is non-null and is the socket whose handshake completed, never a freshly
\* created socket that is not yet established.
C32_ConnectedMeansEstablished ==
    connected => socket # 0 /\ sockets[socket].st = "open"

\* C33: a 'close' or 'error' callback of a socket that has already been
\* replaced never destroys the newer socket and never marks the newer
\* session disconnected: when the event comes from a socket other than the
\* current one, the current socket stays live and an established session
\* stays connected.
C33_StaleCallbackHarmless ==
    [][\A s \in DOMAIN sockets :
          (socket # 0 /\ s # socket /\ (SocketError(s) \/ SocketClose(s)))
          => /\ Live(sockets[socket]) => Live(sockets'[socket])
             /\ (connected /\ sockets[socket].st = "open") => connected']_vars

(***************************************************************************)
(* Claims about frames with an LED value and events                        *)
(***************************************************************************)
\* The mode of the LED value a frame carries.
FrameMode(chunk) == getCurrentMode(parseAndSetLedFromString(chunk.led))

\* The handler of the frame handles its events itself: in the queued variant
\* events are put in the queue until the button services exist.
HandledNow == variant = "queued" => buttonServices.len # 0

====
